---- MODULE Spec2Model ----
(***************************************************************************)
(* A model of the FTP client of dorny/ftp-cli (src/src/ftp_client.rs,      *)
(* src/src/commands.rs, src/src/stream.rs, src/src/error.rs).              *)
(*                                                                         *)
(* Text is a sequence of one-character strings, so that slicing, searching *)
(* and number parsing are computed as the code computes them.              *)
(*                                                                         *)
(* Spec      the session: connect, login, the one-reply commands, the      *)
(*           data-bearing commands in both transfer modes, quit, against a *)
(*           server that answers every command with an arbitrary line.     *)
(* SpecPure  the response parser on every short line and pwd's slice on    *)
(*           every short text.                                             *)
(* SpecCodec the PORT encoder and the decoder of the 227 reply, one after   *)
(*           the other, on every port and every octet.                     *)
(***************************************************************************)
EXTENDS Integers, Sequences, FiniteSets, TLC

(***************************************************************************)
(* Bounds of the model.                                                    *)
(***************************************************************************)
\* longest control-channel line enumerated for the response parser
MaxLineLen == 5
\* longest reply text enumerated for pwd's slice and the PASV decoder
MaxTextLen == 4
\* most replies the server may have in flight, unread by the client
MaxQueue == 2

(***************************************************************************)
(* Program constants.                                                      *)
(***************************************************************************)
OPEN_DATA_CONNECTION == 150
SUCCESS == 200
READY_FOR_NEW_USER == 220
ENTERING_PASSIVE_MODE == 227
CLOSING_DATA_CONNECTION == 226
LOGIN_SUCCESSFUL == 230
FILE_ACTION_OK == 250
PATHNAME_CREATED == 257
USERNAME_OK_NEED_PASSWORD == 331
INVALID_USERNAME_OR_PASSWORD == 430
NOT_LOGGED_IN == 530
OPERATION_FAILED == 550
\* the largest i32, u16 and u8
I32Max == 2147483647
U16Max == 65535
U8Max == 255

(***************************************************************************)
(* Characters and strings.                                                 *)
(***************************************************************************)
DigitChars == <<"0", "1", "2", "3", "4", "5", "6", "7", "8", "9">>

IsDigit(c) == \E d \in 1..10 : DigitChars[d] = c

DigitVal(c) == (CHOOSE d \in 1..10 : DigitChars[d] = c) - 1

\* char::is_whitespace, on the characters the model uses
IsWhitespace(c) == c \in {" ", "\n", "\r", "\t"}

\* str::find(ch): the 0-based index of the first occurrence, -1 for None
find(s, ch) ==
  IF \E i \in 1..Len(s) : s[i] = ch
  THEN (CHOOSE i \in 1..Len(s) : s[i] = ch /\ \A j \in 1..(i - 1) : s[j] # ch) - 1
  ELSE -1

\* str::rfind(ch): the 0-based index of the last occurrence, -1 for None
rfind(s, ch) ==
  IF \E i \in 1..Len(s) : s[i] = ch
  THEN (CHOOSE i \in 1..Len(s) : s[i] = ch /\ \A j \in (i + 1)..Len(s) : s[j] # ch) - 1
  ELSE -1

\* the slice s[a..b] of Rust (0-based, b exclusive), for 0 <= a <= b <= len
Slice(s, a, b) == SubSeq(s, a + 1, b)

\* whether Rust's s[a..b] is in bounds; out of bounds it panics
SliceOk(s, a, b) == 0 <= a /\ a <= b /\ b <= Len(s)

\* str::trim
RECURSIVE TrimStart(_)
TrimStart(s) ==
  IF s # <<>> /\ IsWhitespace(Head(s)) THEN TrimStart(Tail(s)) ELSE s

RECURSIVE TrimEnd(_)
TrimEnd(s) ==
  IF s # <<>> /\ IsWhitespace(s[Len(s)])
  THEN TrimEnd(SubSeq(s, 1, Len(s) - 1))
  ELSE s

trim(s) == TrimEnd(TrimStart(s))

\* str::split(ch): the fields between the separators, at least one
RECURSIVE split(_, _)
split(s, ch) ==
  LET p == find(s, ch) IN
  IF p < 0 THEN <<s>>
  ELSE <<Slice(s, 0, p)>> \o split(Slice(s, p + 1, Len(s)), ch)

\* the value of a string of digits
RECURSIVE DigitsValue(_)
DigitsValue(s) ==
  IF s = <<>> THEN 0
  ELSE 10 * DigitsValue(SubSeq(s, 1, Len(s) - 1)) + DigitVal(s[Len(s)])

AllDigits(s) == \A i \in 1..Len(s) : IsDigit(s[i])

\* Display of an unsigned integer: its decimal digits, no padding
RECURSIVE FmtNat(_)
FmtNat(n) ==
  IF n < 10 THEN <<DigitChars[n + 1]>>
  ELSE FmtNat(n \div 10) \o <<DigitChars[(n % 10) + 1]>>

\* a string of digits without its leading zeros
RECURSIVE StripZeros(_)
StripZeros(s) == IF s # <<>> /\ Head(s) = "0" THEN StripZeros(Tail(s)) ELSE s

\* the value, negated, of a string of digits
RECURSIVE NegDigitsValue(_)
NegDigitsValue(s) ==
  IF s = <<>> THEN 0
  ELSE 10 * NegDigitsValue(SubSeq(s, 1, Len(s) - 1)) - DigitVal(s[Len(s)])

\* whether the digits, with the sign, stay within i32
FitsI32(ds, neg) ==
  LET z == StripZeros(ds) IN
  \/ Len(z) < 10
  \/ /\ Len(z) = 10
     /\ \/ DigitsValue(SubSeq(z, 1, 9)) < I32Max \div 10
        \/ /\ DigitsValue(SubSeq(z, 1, 9)) = I32Max \div 10
           /\ DigitVal(z[10]) <= (I32Max % 10) + (IF neg THEN 1 ELSE 0)

\* str::parse::<u8>: an optional plus sign, then digits, at most 255
parse_u8(s) ==
  LET ds == IF s # <<>> /\ s[1] = "+" THEN Tail(s) ELSE s
  IN IF ds # <<>> /\ AllDigits(ds) /\ Len(StripZeros(ds)) <= 3
        /\ DigitsValue(StripZeros(ds)) <= U8Max
     THEN [ok |-> TRUE, v |-> DigitsValue(StripZeros(ds))]
     ELSE [ok |-> FALSE, v |-> 0]

\* str::parse::<i32>: an optional sign, then digits, within i32
parse_i32(s) ==
  LET neg == s # <<>> /\ s[1] = "-"
      ds == IF s # <<>> /\ s[1] \in {"-", "+"} THEN Tail(s) ELSE s
  IN IF ds # <<>> /\ AllDigits(ds) /\ FitsI32(ds, neg)
     THEN [ok |-> TRUE,
           v |-> IF neg THEN NegDigitsValue(StripZeros(ds))
                 ELSE DigitsValue(StripZeros(ds))]
     ELSE [ok |-> FALSE, v |-> 0]

(***************************************************************************)
(* Results and errors (FtpError and the Ok values of the operations).      *)
(***************************************************************************)
Val(kind, code, text) == [kind |-> kind, code |-> code, text |-> text]

None == Val("None", 0, <<>>)
\* Ok((code, text)) of read_response
Resp(code, text) == Val("Resp", code, text)
\* Ok(()), Ok(bool), Ok(String)
OkUnit == Val("Ok", 0, <<>>)
OkBool(b) == Val(IF b THEN "True" ELSE "False", 0, <<>>)
OkText(text) == Val("Text", 0, text)
\* the variants of FtpError
InvalidResponse(line) == Val("InvalidResponse", 0, line)
UnexpectedReturnCode(code, text) == Val("UnexpectedReturnCode", code, text)
IoError == Val("IoError", 0, <<>>)
EncodingError == Val("EncodingError", 0, <<>>)
OperationFailed(text) == Val("OperationFailed", 0, text)
\* a panic: the thread unwinds and the process ends
Panic == Val("Panic", 0, <<>>)

ErrorKinds ==
  {"InvalidResponse", "UnexpectedReturnCode", "IoError", "EncodingError",
   "OperationFailed"}

IsErr(v) == v.kind \in ErrorKinds

IsOk(v) == v.kind \in {"Ok", "True", "False", "Text"}

(***************************************************************************)
(* The response parser, FtpClient::read_response, on the line read.        *)
(***************************************************************************)
\* read_response without the trim of the text
read_response_untrimmed(line) ==
  LET pos == find(line, " ") IN
  IF pos < 0 THEN InvalidResponse(line)
  ELSE LET code == parse_i32(Slice(line, 0, pos)) IN
       IF ~code.ok THEN InvalidResponse(line)
       ELSE Resp(code.v, Slice(line, pos + 1, Len(line)))

read_response(line) ==
  LET pos == find(line, " ") IN
  IF pos < 0 THEN InvalidResponse(line)
  ELSE LET code == parse_i32(Slice(line, 0, pos)) IN
       IF ~code.ok THEN InvalidResponse(line)
       ELSE Resp(code.v, trim(Slice(line, pos + 1, Len(line))))

to_error(result) ==
  IF result.kind = "Resp"
  THEN IF result.code = OPERATION_FAILED
       THEN OperationFailed(result.text)
       ELSE UnexpectedReturnCode(result.code, result.text)
  ELSE result

(***************************************************************************)
(* Address encoding: the PORT encoder and the PASV decoder.                *)
(***************************************************************************)
Addr(ip, port) == [ip |-> ip, port |-> port]

NoAddr == Addr(<<0, 0, 0, 0>>, 0)

\* the argument of FtpCommand::PORT(addr).to_string()
port_to_string(addr) ==
  FmtNat(addr.ip[1]) \o <<",">> \o FmtNat(addr.ip[2]) \o <<",">>
    \o FmtNat(addr.ip[3]) \o <<",">> \o FmtNat(addr.ip[4]) \o <<",">>
    \o FmtNat(addr.port \div 256) \o <<",">> \o FmtNat(addr.port % 256)

\* to_ftp_port with the two bytes in the other order
to_ftp_port_swapped(b1, b2) == (b2 * 256 + b1) % (U16Max + 1)

\* u16 arithmetic: the value kept in 16 bits
to_ftp_port(b1, b2) == (b1 * 256 + b2) % (U16Max + 1)

\* The address of a 227 reply's text, as init_data_transfer_passive computes
\* it; ok is FALSE where an unwrap, a slice or an index panics.
pasv_address(line) ==
  LET lp == rfind(line, "(")
      rp == rfind(line, ")")
  IN IF lp < 0 \/ rp < 0 \/ ~SliceOk(line, lp + 1, rp)
     THEN [ok |-> FALSE, addr |-> NoAddr]
     ELSE LET fields == split(Slice(line, lp + 1, rp), ",")
              nums == [i \in 1..Len(fields) |-> parse_u8(fields[i])]
          IN IF (\E i \in 1..Len(nums) : ~nums[i].ok) \/ Len(nums) < 6
             THEN [ok |-> FALSE, addr |-> NoAddr]
             ELSE [ok |-> TRUE,
                   addr |-> Addr(<<nums[1].v, nums[2].v, nums[3].v, nums[4].v>>,
                                 to_ftp_port(nums[5].v, nums[6].v))]

(***************************************************************************)
(* pwd's value for a 257 reply with this text: path[1..path.len()-1].      *)
(***************************************************************************)
pwd_path(path) ==
  IF Len(path) >= 1 /\ SliceOk(path, 1, Len(path) - 1)
  THEN OkText(Slice(path, 1, Len(path) - 1))
  ELSE Panic

(***************************************************************************)
(* The state.                                                              *)
(***************************************************************************)
VARIABLES
  pc,        \* where the client is: "init", "idle", a step of an operation,
             \* "failed" (connect gave no session), "closed", "aborted"
  op,        \* the operation in progress, or the last one that returned
  result,    \* what the last operation returned
  mode,      \* FtpClient.mode
  ctrlUp,    \* the control connection is usable
  ctrlQ,     \* replies the server has sent and the client has not read,
             \* each named by the command it answers ("DONE": a transfer's
             \* confirmation; "STALE": sent for an earlier operation)
  log,       \* the I/O events of the current operation, in order
  pending,   \* commands written whose reply no read has been made for
  data,      \* the data connection: "none", "open", "eof" (server closed)
  listener,  \* the active-mode listening socket: "none", "bound"
  owed,      \* the server has opened a transfer and not yet confirmed it
  dest,      \* the destination of the bytes: "none", "created", "written"
  peer,      \* the address parsed from the 227 reply
  pin,       \* SpecPure, SpecCodec: the input of the pure function
  pout       \* SpecPure, SpecCodec: its output

vars ==
  <<pc, op, result, mode, ctrlUp, ctrlQ, log, pending, data, listener, owed,
    dest, peer, pin, pout>>

sessionVars ==
  <<pc, op, result, mode, ctrlUp, ctrlQ, log, pending, data, listener, owed,
    dest, peer>>

(***************************************************************************)
(* FtpMode.                                                                *)
(***************************************************************************)
Passive == [kind |-> "Passive", addr |-> NoAddr]

Active(addr) == [kind |-> "Active", addr |-> addr]

\* the listen addresses a caller may pass to set_mode
ListenAddrs == {Addr(<<127, 0, 0, 1>>, 5136), Addr(<<10, 0, 0, 9>>, 255)}

Modes == {Passive} \cup {Active(a) : a \in ListenAddrs}

(***************************************************************************)
(* The lines a server may send.                                            *)
(***************************************************************************)
\* reply codes: the twelve the client knows, and two it does not
ReplyCodes ==
  {OPEN_DATA_CONNECTION, SUCCESS, READY_FOR_NEW_USER, ENTERING_PASSIVE_MODE,
   CLOSING_DATA_CONNECTION, LOGIN_SUCCESSFUL, FILE_ACTION_OK, PATHNAME_CREATED,
   USERNAME_OK_NEED_PASSWORD, INVALID_USERNAME_OR_PASSWORD, NOT_LOGGED_IN,
   OPERATION_FAILED, 425, 500}

GenericTexts == {<<"o", "k">>, <<"n", "o", " ", "f", "i", "l", "e">>}

\* "/home/user" is the current directory.
PwdExampleText ==
  <<"\"", "/", "h", "o", "m", "e", "/", "u", "s", "e", "r", "\"", " ", "i",
    "s", " ", "t", "h", "e", " ", "c", "u", "r", "r", "e", "n", "t", " ", "d",
    "i", "r", "e", "c", "t", "o", "r", "y", ".">>

PwdExamplePath == <<"/", "h", "o", "m", "e", "/", "u", "s", "e", "r">>

PwdTexts ==
  {PwdExampleText, <<"\"", "/", "a", "\"">>, <<"\"", "/", "a", "\"", " ", "x">>,
   <<"\"">>, <<>>}

\* Entering Passive Mode (127,0,0,1,19,136).
PasvExampleText ==
  <<"M", "o", "d", "e", " ", "(", "1", "2", "7", ",", "0", ",", "0", ",", "1",
    ",", "1", "9", ",", "1", "3", "6", ")", ".">>

PasvTexts ==
  {PasvExampleText,
   \* no parentheses at all
   <<"1", "2", "7", ",", "0", ",", "0", ",", "1", ",", "1", "9", ",", "1", "3", "6">>,
   \* no closing parenthesis
   <<"(", "1", "2", "7", ",", "0", ",", "0", ",", "1", ",", "1", "9", ",", "1", "3", "6">>,
   \* no opening parenthesis
   <<"1", "2", "7", ",", "0", ",", "0", ",", "1", ",", "1", "9", ",", "1", "3", "6", ")">>,
   \* a field that is not a number
   <<"(", "1", "2", "7", ",", "0", ",", "x", ",", "1", ",", "1", "9", ",", "1", "3", "6", ")">>,
   \* a field above 255
   <<"(", "1", "2", "7", ",", "0", ",", "0", ",", "1", ",", "2", "5", "6", ",", "1", ")">>,
   \* five fields
   <<"(", "1", "2", "7", ",", "0", ",", "0", ",", "1", ",", "1", "9", ")">>,
   \* the closing parenthesis before the opening one
   <<")", "1", ",", "2", ",", "3", ",", "4", ",", "5", ",", "6", "(">>}

TextsFor(code) ==
  GenericTexts
    \cup (IF code = PATHNAME_CREATED THEN PwdTexts ELSE {})
    \cup (IF code = ENTERING_PASSIVE_MODE THEN PasvTexts ELSE {})

\* a status line as a server writes it: code, space, text, newline
StatusLine(code, text) == FmtNat(code) \o <<" ">> \o text \o <<"\n">>

\* lines that are no status line: end of file, no separator, no code
MalformedLines == {<<>>, <<"2", "2", "0", "\n">>, <<"o", "k", " ", "2", "2", "0", "\n">>}

ServerLines ==
  {StatusLine(c, t) : c \in ReplyCodes, t \in GenericTexts}
    \cup {StatusLine(PATHNAME_CREATED, t) : t \in PwdTexts}
    \cup {StatusLine(ENTERING_PASSIVE_MODE, t) : t \in PasvTexts}
    \cup MalformedLines

(***************************************************************************)
(* Events of the log.                                                      *)
(***************************************************************************)
Ev(t, c, arg, ok, r) == [t |-> t, c |-> c, arg |-> arg, ok |-> ok, r |-> r]

\* a command was handed to write_command; ok: the write succeeded
EvWrite(verb, arg, ok) == Ev("write", verb, arg, ok, None)

\* read_response was called and returned r; c names the reply consumed
EvRead(c, r) == Ev("read", c, <<>>, r.kind # "IoError", r)

\* another step: bind, connect, accept, create, open, copy, eof, decode
EvStep(t, ok) == Ev(t, "", <<>>, ok, None)

\* set_mode was called with the mode m
EvMode(m) == Ev("set_mode", m.kind, port_to_string(m.addr), TRUE, None)

(***************************************************************************)
(* The matches of the operations on the replies they read.                 *)
(***************************************************************************)
IsCode(r, code) == r.kind = "Resp" /\ r.code = code

\* a decision of an operation after a reply: go on at a step, or return
Goto(step) == [next |-> step, res |-> None]

Ret(res) == [next |-> "return", res |-> res]

\* connect taking every positive completion (2xx) for a welcome
connect_greeting_any_2xx(r) ==
  IF r.kind = "Resp" /\ r.code \in 200..299 THEN Ret(OkUnit) ELSE Ret(to_error(r))

connect_greeting(r) ==
  IF IsCode(r, READY_FOR_NEW_USER) THEN Ret(OkUnit) ELSE Ret(to_error(r))

BadCredentials(r) ==
  IsCode(r, NOT_LOGGED_IN) \/ IsCode(r, INVALID_USERNAME_OR_PASSWORD)

\* login sending PASS whatever the positive reply to USER
login_user_always_pass(r) ==
  IF IsCode(r, USERNAME_OK_NEED_PASSWORD) \/ IsCode(r, LOGIN_SUCCESSFUL)
  THEN Goto("login_pass_w")
  ELSE IF BadCredentials(r) THEN Ret(OkBool(FALSE))
  ELSE Ret(to_error(r))

\* the match on the reply to USER
login_user(r) ==
  IF IsCode(r, USERNAME_OK_NEED_PASSWORD) THEN Goto("login_pass_w")
  ELSE IF IsCode(r, LOGIN_SUCCESSFUL) THEN Ret(OkBool(TRUE))
  ELSE IF BadCredentials(r) THEN Ret(OkBool(FALSE))
  ELSE Ret(to_error(r))

\* login reporting refused credentials as an error
login_pass_refusal_is_error(r) ==
  IF IsCode(r, LOGIN_SUCCESSFUL) THEN Ret(OkBool(TRUE)) ELSE Ret(to_error(r))

\* the match on the reply to PASS
login_pass(r) ==
  IF IsCode(r, LOGIN_SUCCESSFUL) THEN Ret(OkBool(TRUE))
  ELSE IF BadCredentials(r) THEN Ret(OkBool(FALSE))
  ELSE Ret(to_error(r))

cd(r) == IF IsCode(r, FILE_ACTION_OK) THEN Ret(OkUnit) ELSE Ret(to_error(r))

delete(r) == IF IsCode(r, FILE_ACTION_OK) THEN Ret(OkUnit) ELSE Ret(to_error(r))

\* mkdir waiting for 250, as cd does
mkdir_file_action_ok(r) ==
  IF IsCode(r, FILE_ACTION_OK) THEN Ret(OkUnit) ELSE Ret(to_error(r))

mkdir(r) == IF IsCode(r, PATHNAME_CREATED) THEN Ret(OkUnit) ELSE Ret(to_error(r))

rmdir(r) == IF IsCode(r, FILE_ACTION_OK) THEN Ret(OkUnit) ELSE Ret(to_error(r))

\* Ret(Panic) where the slice panics
pwd(r) ==
  IF IsCode(r, PATHNAME_CREATED) THEN Ret(pwd_path(r.text)) ELSE Ret(to_error(r))

simple_reply(r) ==
  CASE op = "cd" -> cd(r)
    [] op = "delete" -> delete(r)
    [] op = "mkdir" -> mkdir(r)
    [] op = "rmdir" -> rmdir(r)
    [] op = "pwd" -> pwd(r)

\* init_data_transfer going on after any reply to TYPE
init_data_transfer_any_reply(r) ==
  IF r.kind = "Resp"
  THEN Goto(IF mode.kind = "Active" THEN "act_bind" ELSE "pasv_w")
  ELSE Ret(to_error(r))

\* the match on the reply to TYPE, and the match on self.mode
init_data_transfer(r) ==
  IF IsCode(r, SUCCESS)
  THEN Goto(IF mode.kind = "Active" THEN "act_bind" ELSE "pasv_w")
  ELSE Ret(to_error(r))

\* init_data_transfer_active going on after any reply to PORT
active_port_any_reply(r) ==
  IF r.kind = "Resp" THEN Goto("act_cmd_w") ELSE Ret(to_error(r))

\* the match on the reply to PORT
active_port(r) ==
  IF IsCode(r, SUCCESS) THEN Goto("act_cmd_w") ELSE Ret(to_error(r))

\* the match of end_data_transfer, and the Ok value of the operation
end_data_transfer(r) ==
  IF IsCode(r, CLOSING_DATA_CONNECTION)
  THEN Ret(IF op = "list" THEN OkText(<<>>) ELSE OkUnit)
  ELSE Ret(to_error(r))

\* the match an operation makes on the reply it reads at step `at`
ReplyDecision(at, r) ==
  CASE at = "login_user_r" -> login_user(r)
    [] at = "login_pass_r" -> login_pass(r)
    [] at = "simple_r" -> simple_reply(r)
    [] at = "type_r" -> init_data_transfer(r)
    [] at = "act_port_r" -> active_port(r)
    [] at = "end_r" -> end_data_transfer(r)

(***************************************************************************)
(* The control channel: write_command and read_response, as steps.         *)
(***************************************************************************)
\* What one call of read_response may return now: the parse of the next
\* line the server sent, or an I/O error of the connection.
RecvOutcomes ==
  (IF ctrlUp /\ ctrlQ # <<>> THEN {read_response(l) : l \in ServerLines} ELSE {})
    \cup {IoError}

\* the unread replies after the read that returned r
QueueAfter(r) == IF r.kind = "IoError" THEN <<>> ELSE Tail(ctrlQ)

\* the command whose reply the read that returned r consumed
Consumed(r) == IF r.kind = "IoError" THEN "" ELSE Head(ctrlQ)

\* The operation returns res: its locals (the data stream, the listener)
\* are dropped. A server that still owes the transfer's confirmation sees
\* the data connection end and sends it.
Return(res, q, up) ==
  /\ pc' = "idle"
  /\ result' = res
  /\ data' = "none"
  /\ listener' = "none"
  /\ owed' = FALSE
  /\ ctrlUp' = up
  /\ ctrlQ' = IF ~up THEN <<>> ELSE IF owed THEN Append(q, "DONE") ELSE q

\* a panic ends the process
Abort ==
  /\ pc' = "aborted"
  /\ result' = Panic
  /\ data' = "none"
  /\ listener' = "none"
  /\ owed' = FALSE
  /\ ctrlUp' = FALSE
  /\ ctrlQ' = <<>>

\* try!(self.write_command(cmd)) at step `at`, going on at `next`
write_command(at, verb, arg, next) ==
  /\ pc = at
  /\ \E ok \in BOOLEAN :
       /\ ok => ctrlUp
       /\ log' = Append(log, EvWrite(verb, arg, ok))
       /\ IF ok
          THEN /\ pc' = next
               /\ ctrlQ' = Append(ctrlQ, verb)
               /\ pending' = pending + 1
               /\ UNCHANGED <<result, data, listener, owed, ctrlUp>>
          ELSE /\ Return(IoError, <<>>, FALSE)
               /\ pending' = pending
  /\ UNCHANGED <<op, mode, dest, peer, pin, pout>>

\* match self.read_response() { ... } at step `at`
ReadReply(at) ==
  /\ pc = at
  /\ \E r \in RecvOutcomes :
       LET d == ReplyDecision(at, r) IN
       /\ log' = Append(log, EvRead(Consumed(r), r))
       /\ pending' = IF pending > 0 THEN pending - 1 ELSE 0
       /\ IF d.res = Panic
          THEN Abort
          ELSE IF d.next = "return"
          THEN Return(d.res, QueueAfter(r), r.kind # "IoError")
          ELSE /\ pc' = d.next
               /\ ctrlQ' = QueueAfter(r)
               /\ ctrlUp' = (r.kind # "IoError")
               /\ UNCHANGED <<result, data, listener, owed>>
  /\ UNCHANGED <<op, mode, dest, peer, pin, pout>>

(***************************************************************************)
(* connect.                                                                *)
(***************************************************************************)
\* TcpStream::connect(server)
Connect ==
  /\ pc = "init"
  /\ op' = "connect"
  /\ \E ok \in BOOLEAN :
       /\ log' = <<EvStep("connect", ok)>>
       /\ IF ok
          THEN /\ pc' = "connect_r"
               /\ ctrlUp' = TRUE
               /\ ctrlQ' = <<"GREETING">>
               /\ result' = None
          ELSE /\ pc' = "failed"
               /\ result' = IoError
               /\ UNCHANGED <<ctrlUp, ctrlQ>>
  /\ UNCHANGED <<mode, pending, data, listener, owed, dest, peer, pin, pout>>

\* the greeting: a session (pc = "idle") only for 220; else no session
ConnectGreeting ==
  /\ pc = "connect_r"
  /\ \E r \in RecvOutcomes :
       LET d == connect_greeting(r) IN
       /\ log' = Append(log, EvRead(Consumed(r), r))
       /\ result' = d.res
       /\ pc' = IF d.res = OkUnit THEN "idle" ELSE "failed"
       /\ ctrlQ' = IF d.res = OkUnit THEN QueueAfter(r) ELSE <<>>
       /\ ctrlUp' = (d.res = OkUnit)
  /\ UNCHANGED <<op, mode, pending, data, listener, owed, dest, peer, pin, pout>>

(***************************************************************************)
(* The caller: one operation at a time on a session.                       *)
(***************************************************************************)
SimpleOps == {"cd", "mkdir", "rmdir", "delete", "pwd"}

TransferOps == {"get", "put", "list"}

Ops == {"login", "quit"} \cup SimpleOps \cup TransferOps

Entry(o) ==
  CASE o = "login" -> "login_user_w"
    [] o = "quit" -> "quit_w"
    [] o \in SimpleOps -> "simple_w"
    [] o \in TransferOps -> "type_w"

\* The caller starts an operation. Replies still unread now were sent for
\* earlier operations.
Call ==
  /\ pc = "idle"
  /\ Len(ctrlQ) < MaxQueue
  /\ \E o \in Ops :
       /\ op' = o
       /\ pc' = Entry(o)
  /\ log' = <<>>
  /\ result' = None
  /\ dest' = "none"
  /\ peer' = NoAddr
  /\ ctrlQ' = [i \in 1..Len(ctrlQ) |-> "STALE"]
  /\ UNCHANGED <<mode, ctrlUp, pending, data, listener, owed, pin, pout>>

\* set_mode forgetting its argument
set_mode_keeps_mode ==
  /\ pc = "idle"
  /\ \E m \in Modes : log' = <<EvMode(m)>>
  /\ mode' = mode
  /\ op' = "set_mode"
  /\ result' = OkUnit
  /\ UNCHANGED <<pc, ctrlUp, ctrlQ, pending, data, listener, owed, dest, peer,
                 pin, pout>>

set_mode ==
  /\ pc = "idle"
  /\ \E m \in Modes :
       /\ mode' = m
       /\ log' = <<EvMode(m)>>
  /\ op' = "set_mode"
  /\ result' = OkUnit
  /\ UNCHANGED <<pc, ctrlUp, ctrlQ, pending, data, listener, owed, dest, peer,
                 pin, pout>>

(***************************************************************************)
(* login.                                                                  *)
(***************************************************************************)
LoginSendUser == write_command("login_user_w", "USER", <<>>, "login_user_r")

LoginReadUser == ReadReply("login_user_r")

LoginSendPass == write_command("login_pass_w", "PASS", <<>>, "login_pass_r")

LoginReadPass == ReadReply("login_pass_r")

(***************************************************************************)
(* cd, delete, mkdir, rmdir, pwd: one command, one reply.                  *)
(***************************************************************************)
Verb(o) ==
  CASE o = "cd" -> "CWD"
    [] o = "delete" -> "DELE"
    [] o = "mkdir" -> "MKD"
    [] o = "rmdir" -> "RMD"
    [] o = "pwd" -> "PWD"
    [] o = "get" -> "RETR"
    [] o = "put" -> "STOR"
    [] o = "list" -> "LIST"

SimpleSend == write_command("simple_w", Verb(op), <<>>, "simple_r")

SimpleRead == ReadReply("simple_r")

(***************************************************************************)
(* quit: the write's result is ignored and the client is dropped.          *)
(***************************************************************************)
\* quit returning the failure of its write
quit_reports_failure ==
  /\ pc = "quit_w"
  /\ \E ok \in BOOLEAN :
       /\ ok => ctrlUp
       /\ log' = Append(log, EvWrite("QUIT", <<>>, ok))
       /\ result' = IF ok THEN OkUnit ELSE IoError
  /\ pc' = "closed"
  /\ ctrlUp' = FALSE
  /\ ctrlQ' = <<>>
  /\ data' = "none"
  /\ listener' = "none"
  /\ owed' = FALSE
  /\ UNCHANGED <<op, mode, pending, dest, peer, pin, pout>>

quit ==
  /\ pc = "quit_w"
  /\ \E ok \in BOOLEAN :
       /\ ok => ctrlUp
       /\ log' = Append(log, EvWrite("QUIT", <<>>, ok))
  /\ pc' = "closed"
  /\ result' = OkUnit
  /\ ctrlUp' = FALSE
  /\ ctrlQ' = <<>>
  /\ data' = "none"
  /\ listener' = "none"
  /\ owed' = FALSE
  /\ UNCHANGED <<op, mode, pending, dest, peer, pin, pout>>

(***************************************************************************)
(* init_data_transfer: TYPE, then the data channel of the current mode.    *)
(***************************************************************************)
\* FtpTransferType of the operation
TransferType(o) == IF o = "list" THEN "Text" ELSE "Binary"

\* where the operation goes on once it holds the data stream
Body(o) ==
  CASE o = "get" -> "get_create"
    [] o = "list" -> "list_read"
    [] o = "put" -> "put_open"

TransferSendType ==
  write_command("type_w", "TYPE", <<TransferType(op)>>, "type_r")

TransferReadType == ReadReply("type_r")

\* The reply to the transfer command at step `at`: 150 goes on at `next`
\* (the server has opened the transfer), anything else returns the error.
ReadTransferReply(at, next) ==
  /\ pc = at
  /\ \E r \in RecvOutcomes :
       /\ log' = Append(log, EvRead(Consumed(r), r))
       /\ pending' = IF pending > 0 THEN pending - 1 ELSE 0
       /\ IF IsCode(r, OPEN_DATA_CONNECTION)
          THEN /\ pc' = next
               /\ owed' = TRUE
               /\ ctrlQ' = QueueAfter(r)
               /\ UNCHANGED <<result, data, listener, ctrlUp>>
          ELSE Return(to_error(r), QueueAfter(r), r.kind # "IoError")
  /\ UNCHANGED <<op, mode, dest, peer, pin, pout>>

\* a step on a socket or a file other than the control channel, at `at`:
\* on failure try! returns the I/O error
LocalStep(at, what, next, dataNext, listenerNext, destNext) ==
  /\ pc = at
  /\ \E ok \in BOOLEAN :
       /\ log' = Append(log, EvStep(what, ok))
       /\ IF ok
          THEN /\ pc' = next
               /\ data' = dataNext
               /\ listener' = listenerNext
               /\ dest' = destNext
               /\ UNCHANGED <<result, owed, ctrlUp, ctrlQ>>
          ELSE /\ Return(IoError, ctrlQ, ctrlUp)
               /\ dest' = dest
  /\ UNCHANGED <<op, mode, pending, peer, pin, pout>>

\* One chunk moved between the data stream and the file or buffer, at
\* `at`, or the I/O error that ends the loop. Chunks after the first leave
\* the state as it is: the second and later ones are logged no more.
Chunk(at, dataStates) ==
  /\ pc = at
  /\ data \in dataStates
  /\ \E ok \in BOOLEAN :
       IF ok
       THEN /\ dest # "written"
            /\ dest' = "written"
            /\ log' = Append(log, EvStep("copy", TRUE))
            /\ UNCHANGED <<pc, result, data, listener, owed, ctrlUp, ctrlQ>>
       ELSE /\ Return(IoError, ctrlQ, ctrlUp)
            /\ log' = Append(log, EvStep("copy", FALSE))
            /\ dest' = dest
  /\ UNCHANGED <<op, mode, pending, peer, pin, pout>>

(***************************************************************************)
(* init_data_transfer_active.                                              *)
(***************************************************************************)
\* TcpListener::bind(addr)
ActiveBind == LocalStep("act_bind", "bind", "act_port_w", data, "bound", dest)

ActiveSendPort ==
  write_command("act_port_w", "PORT", port_to_string(mode.addr), "act_port_r")

ActiveReadPort == ReadReply("act_port_r")

ActiveSendCommand == write_command("act_cmd_w", Verb(op), <<>>, "act_cmd_r")

ActiveReadCommand == ReadTransferReply("act_cmd_r", "act_accept")

\* accept leaving the listener open after the function has returned
ActiveAccept_keeps_listener ==
  LocalStep("act_accept", "accept", Body(op), "open", listener, dest)

\* listener.accept(); the listener is dropped when the function returns
ActiveAccept == LocalStep("act_accept", "accept", Body(op), "open", "none", dest)

(***************************************************************************)
(* init_data_transfer_passive.                                             *)
(***************************************************************************)
PassiveSendPasv == write_command("pasv_w", "PASV", <<>>, "pasv_r")

\* the reply to PASV: the address is parsed with unwrap and indexing
PassiveReadPasv ==
  /\ pc = "pasv_r"
  /\ \E r \in RecvOutcomes :
       /\ log' = Append(log, EvRead(Consumed(r), r))
       /\ pending' = IF pending > 0 THEN pending - 1 ELSE 0
       /\ IF IsCode(r, ENTERING_PASSIVE_MODE)
          THEN LET a == pasv_address(r.text) IN
               IF a.ok
               THEN /\ pc' = "pasv_cmd_w"
                    /\ peer' = a.addr
                    /\ ctrlQ' = QueueAfter(r)
                    /\ UNCHANGED <<result, data, listener, owed, ctrlUp>>
               ELSE Abort /\ peer' = peer
          ELSE Return(to_error(r), QueueAfter(r), r.kind # "IoError") /\ peer' = peer
  /\ UNCHANGED <<op, mode, dest, pin, pout>>

PassiveSendCommand == write_command("pasv_cmd_w", Verb(op), <<>>, "pasv_conn")

\* TcpStream::connect(addr)
PassiveConnect ==
  LocalStep("pasv_conn", "connect", "pasv_cmd_r", "open", listener, dest)

PassiveReadCommand == ReadTransferReply("pasv_cmd_r", Body(op))

(***************************************************************************)
(* get, list, put: the bytes, then end_data_transfer.                      *)
(***************************************************************************)
\* File::create(local_path)
GetCreate == LocalStep("get_create", "create", "get_copy", data, listener, "created")

\* write_all_to: a chunk read from the stream and written to the file
GetChunk == Chunk("get_copy", {"open", "eof"})

\* write_all_to: read returns 0, the stream is at its end
GetEof ==
  /\ pc = "get_copy"
  /\ data = "eof"
  /\ log' = Append(log, EvStep("eof", TRUE))
  /\ pc' = "end_r"
  /\ UNCHANGED <<op, result, mode, ctrlUp, ctrlQ, pending, data, listener, owed,
                 dest, peer, pin, pout>>

\* read_to_end: bytes arrive in the buffer
ListChunk == Chunk("list_read", {"open", "eof"})

\* read_to_end returns at the end of the stream, then String::from_utf8:
\* the bytes received may or may not be UTF-8 (no bytes are)
ListEof ==
  /\ pc = "list_read"
  /\ data = "eof"
  /\ \E utf8 \in BOOLEAN :
       /\ dest = "none" => utf8
       /\ log' = log \o <<EvStep("eof", TRUE), EvStep("decode", utf8)>>
       /\ IF utf8
          THEN /\ pc' = "end_r"
               /\ UNCHANGED <<result, ctrlUp, ctrlQ, data, listener, owed>>
          ELSE Return(EncodingError, ctrlQ, ctrlUp)
  /\ UNCHANGED <<op, mode, pending, dest, peer, pin, pout>>

\* File::open(local_path)
PutOpen == LocalStep("put_open", "open", "put_copy", data, listener, dest)

\* write_all_to: a chunk read from the file and written to the stream
PutChunk == Chunk("put_copy", {"open"})

\* write_all_to: read returns 0, the file is at its end
PutEof ==
  /\ pc = "put_copy"
  /\ log' = Append(log, EvStep("eof", TRUE))
  /\ pc' = "end_r"
  /\ UNCHANGED <<op, result, mode, ctrlUp, ctrlQ, pending, data, listener, owed,
                 dest, peer, pin, pout>>

TransferConfirm == ReadReply("end_r")

(***************************************************************************)
(* The server's side of a transfer.                                        *)
(***************************************************************************)
\* a download: the server has sent the bytes, closes the data connection
\* and sends its confirmation
ServerFinishDownload ==
  /\ owed /\ data = "open" /\ ctrlUp
  /\ op \in {"get", "list"}
  /\ data' = "eof"
  /\ owed' = FALSE
  /\ ctrlQ' = Append(ctrlQ, "DONE")
  /\ UNCHANGED <<pc, op, result, mode, ctrlUp, log, pending, listener, dest,
                 peer, pin, pout>>

\* an upload: a server may confirm it while the data connection is open
\* (one that waits for the end of the stream confirms only after the
\* client has closed it, which Return covers)
ServerConfirmUpload ==
  /\ owed /\ data = "open" /\ ctrlUp
  /\ op = "put"
  /\ owed' = FALSE
  /\ ctrlQ' = Append(ctrlQ, "DONE")
  /\ UNCHANGED <<pc, op, result, mode, ctrlUp, log, pending, data, listener,
                 dest, peer, pin, pout>>

(***************************************************************************)
(* The session.                                                            *)
(***************************************************************************)
NoInput == [k |-> "none", s |-> <<>>, a |-> NoAddr]

NoOutput == [done |-> FALSE, v |-> None, s |-> <<>>, a |-> [ok |-> FALSE, addr |-> NoAddr]]

SessionInit ==
  /\ pc = "init"
  /\ op = "none"
  /\ result = None
  /\ mode = Passive
  /\ ctrlUp = FALSE
  /\ ctrlQ = <<>>
  /\ log = <<>>
  /\ pending = 0
  /\ data = "none"
  /\ listener = "none"
  /\ owed = FALSE
  /\ dest = "none"
  /\ peer = NoAddr

Init == SessionInit /\ pin = NoInput /\ pout = NoOutput

Next ==
  \/ Connect
  \/ ConnectGreeting
  \/ Call
  \/ set_mode
  \/ LoginSendUser
  \/ LoginReadUser
  \/ LoginSendPass
  \/ LoginReadPass
  \/ SimpleSend
  \/ SimpleRead
  \/ quit
  \/ TransferSendType
  \/ TransferReadType
  \/ ActiveBind
  \/ ActiveSendPort
  \/ ActiveReadPort
  \/ ActiveSendCommand
  \/ ActiveReadCommand
  \/ ActiveAccept
  \/ PassiveSendPasv
  \/ PassiveReadPasv
  \/ PassiveSendCommand
  \/ PassiveConnect
  \/ PassiveReadCommand
  \/ GetCreate
  \/ GetChunk
  \/ GetEof
  \/ ListChunk
  \/ ListEof
  \/ PutOpen
  \/ PutChunk
  \/ PutEof
  \/ TransferConfirm
  \/ ServerFinishDownload
  \/ ServerConfirmUpload

Spec == Init /\ [][Next]_vars

(***************************************************************************)
(* SpecPure: read_response on every short line, pwd on every short text.   *)
(***************************************************************************)
SeqsUpTo(alphabet, n) == UNION {[1..k -> alphabet] : k \in 0..n}

\* digits, the signs, the separator, the line end, a letter
LineAlphabet == {"2", "6", "-", "+", " ", "\n", "a"}

\* 226 Closing data connection.
ExampleLine ==
  <<"2", "2", "6", " ", "C", "l", "o", "s", "i", "n", "g", " ", "d", "a", "t",
    "a", " ", "c", "o", "n", "n", "e", "c", "t", "i", "o", "n", ".", "\n">>

ExampleText ==
  <<"C", "l", "o", "s", "i", "n", "g", " ", "d", "a", "t", "a", " ", "c", "o",
    "n", "n", "e", "c", "t", "i", "o", "n", ".">>

\* what read_line returns: nothing follows the line end
Lines ==
  {l \in SeqsUpTo(LineAlphabet, MaxLineLen) : \A i \in 1..(Len(l) - 1) : l[i] # "\n"}
    \cup {ExampleLine}

\* the quote, path characters, a space
TextAlphabet == {"\"", "/", "a", " "}

Texts == SeqsUpTo(TextAlphabet, MaxTextLen)

PureInit ==
  /\ SessionInit
  /\ pout = NoOutput
  /\ pin \in {[k |-> "line", s |-> l, a |-> NoAddr] : l \in Lines}
            \cup {[k |-> "text", s |-> t, a |-> NoAddr] : t \in Texts}

\* read_response returns for the line read
ParseLine ==
  /\ pin.k = "line"
  /\ ~pout.done
  /\ pout' = [pout EXCEPT !.done = TRUE, !.v = read_response(pin.s)]
  /\ UNCHANGED <<sessionVars, pin>>

\* pwd returns for a 257 reply with the text
PwdReply ==
  /\ pin.k = "text"
  /\ ~pout.done
  /\ pout' = [pout EXCEPT !.done = TRUE, !.v = pwd(Resp(PATHNAME_CREATED, pin.s)).res]
  /\ UNCHANGED <<sessionVars, pin>>

PureNext == ParseLine \/ PwdReply

SpecPure == PureInit /\ [][PureNext]_vars

(***************************************************************************)
(* SpecCodec: an address through the PORT encoder and back through the     *)
(* decoder of the 227 reply.                                               *)
(***************************************************************************)
\* every port with one address, and every octet in every position
CodecAddrs ==
  {Addr(<<127, 0, 0, 1>>, p) : p \in 0..U16Max}
    \cup {Addr(<<o, 0, 0, 1>>, 5136) : o \in 0..U8Max}
    \cup {Addr(<<127, o, 0, 1>>, 5136) : o \in 0..U8Max}
    \cup {Addr(<<127, 0, o, 1>>, 5136) : o \in 0..U8Max}
    \cup {Addr(<<127, 0, 0, o>>, 5136) : o \in 0..U8Max}

CodecInit ==
  /\ SessionInit
  /\ pout = NoOutput
  /\ pin \in {[k |-> "addr", s |-> <<>>, a |-> a] : a \in CodecAddrs}

\* FtpCommand::PORT(addr).to_string()
EncodePort ==
  /\ pin.k = "addr"
  /\ pout.s = <<>>
  /\ pout' = [pout EXCEPT !.s = port_to_string(pin.a)]
  /\ UNCHANGED <<sessionVars, pin>>

\* the six numbers read back as init_data_transfer_passive reads them
DecodePort ==
  /\ pin.k = "addr"
  /\ pout.s # <<>>
  /\ ~pout.done
  /\ pout' = [pout EXCEPT !.done = TRUE,
                          !.a = pasv_address(<<"(">> \o pout.s \o <<")">>)]
  /\ UNCHANGED <<sessionVars, pin>>

CodecNext == EncodePort \/ DecodePort

SpecCodec == CodecInit /\ [][CodecNext]_vars

(***************************************************************************)
(* Properties of the pure functions.                                       *)
(***************************************************************************)
HasSpace(line) == \E i \in 1..Len(line) : line[i] = " "

\* the 1-based place of the first space of a line that has one
FirstSpace(line) ==
  CHOOSE i \in 1..Len(line) : line[i] = " " /\ \A j \in 1..(i - 1) : line[j] # " "

\* the decimal numeral s, with an optional sign, denotes n
Denotes(s, n) ==
  LET neg == s # <<>> /\ s[1] = "-"
      ds == IF s # <<>> /\ s[1] \in {"-", "+"} THEN Tail(s) ELSE s
      z == StripZeros(ds)
  IN /\ ds # <<>>
     /\ AllDigits(ds)
     /\ IF z = <<>> THEN n = 0
        ELSE /\ (IF neg THEN n < 0 ELSE n > 0)
             /\ FmtNat(IF neg THEN 0 - n ELSE n) = z

IsNumeral(s) ==
  LET ds == IF s # <<>> /\ s[1] \in {"-", "+"} THEN Tail(s) ELSE s
  IN ds # <<>> /\ AllDigits(ds)

\* t is s without the whitespace at its two ends
IsTrimOf(t, s) ==
  /\ t = <<>> \/ (~IsWhitespace(t[1]) /\ ~IsWhitespace(t[Len(t)]))
  /\ \E i \in 0..Len(s) :
       /\ i + Len(t) <= Len(s)
       /\ t = SubSeq(s, i + 1, i + Len(t))
       /\ \A k \in 1..i : IsWhitespace(s[k])
       /\ \A k \in (i + Len(t) + 1)..Len(s) : IsWhitespace(s[k])

\* C6: for every line read, the parser fails with InvalidResponse when the
\* line has no space, fails with InvalidResponse when the prefix before the
\* first space is no integer, and otherwise returns that integer as the
\* code and what follows the first space, trimmed, as the text; the line
\* "226 Closing data connection." gives 226 and "Closing data connection.".
C6_ParserContract ==
  (pin.k = "line" /\ pout.done) =>
    LET line == pin.s
        r == pout.v
    IN /\ ~HasSpace(line) => r = InvalidResponse(line)
       /\ HasSpace(line) =>
            LET p == FirstSpace(line)
                prefix == SubSeq(line, 1, p - 1)
                rest == SubSeq(line, p + 1, Len(line))
            IN IF IsNumeral(prefix)
               THEN /\ r.kind = "Resp"
                    /\ Denotes(prefix, r.code)
                    /\ IsTrimOf(r.text, rest)
               ELSE r = InvalidResponse(line)
       /\ line = ExampleLine => r = Resp(226, ExampleText)

\* the parser has returned code and text for the example line
C6_Witness ==
  /\ pin.k = "line"
  /\ pin.s = ExampleLine
  /\ pout.done
  /\ pout.v.kind = "Resp"
  /\ pout.v.text # SubSeq(pin.s, 5, Len(pin.s))

\* the numbers of a text of comma-separated decimal numerals
Numbers(s) ==
  LET fields == split(s, ",") IN [i \in 1..Len(fields) |-> DigitsValue(fields[i])]

\* every field is a numeral as Display writes it: digits, no leading zero
Canonical(s) ==
  LET fields == split(s, ",") IN
  \A i \in 1..Len(fields) :
    /\ fields[i] # <<>>
    /\ AllDigits(fields[i])
    /\ Len(fields[i]) > 1 => fields[i][1] # "0"

ExampleAddr == Addr(<<127, 0, 0, 1>>, 5136)

\* 127,0,0,1,20,16
ExamplePortArg ==
  <<"1", "2", "7", ",", "0", ",", "0", ",", "1", ",", "2", "0", ",", "1", "6">>

\* C5: the PORT encoder renders o1,o2,o3,o4,port/256,port%256 for every
\* address and every port in 0..65535 (127.0.0.1:5136 gives
\* 127,0,0,1,20,16), and decoding those six numbers as four octets and
\* high*256+low gives back the same address and the same port, which fits
\* in 16 bits.
C5_AddressRoundTrip ==
  pin.k = "addr" =>
    /\ pout.s # <<>> =>
         /\ Canonical(pout.s)
         /\ Numbers(pout.s)
              = <<pin.a.ip[1], pin.a.ip[2], pin.a.ip[3], pin.a.ip[4],
                  pin.a.port \div 256, pin.a.port % 256>>
         /\ pin.a = ExampleAddr => pout.s = ExamplePortArg
    /\ pout.done =>
         /\ pout.a.ok
         /\ pout.a.addr.ip = pin.a.ip
         /\ pout.a.addr.port = pin.a.port
         /\ pout.a.addr.port \in 0..U16Max

\* the example address, encoded and decoded, with a port above one byte
C5_Witness ==
  /\ pin.k = "addr"
  /\ pin.a = ExampleAddr
  /\ pout.done
  /\ pout.s = ExamplePortArg
  /\ pout.a.addr.port = 5136

(***************************************************************************)
(* Properties of the session.                                              *)
(***************************************************************************)
IsWrite(e, verb) == e.t = "write" /\ e.c = verb

IsRead(e) == e.t = "read"

\* the operation has returned to its caller
Returned(o) == op = o /\ pc = "idle"

\* C1: login sends USER first; after a 331 reply to USER it sends PASS, and
\* a 230 reply to PASS yields true; after a 530 reply to USER it yields
\* false and after a 230 reply to USER it yields true, in both cases
\* without ever sending PASS.
C1_LoginSequence ==
  op = "login" =>
    /\ Len(log) >= 1 => IsWrite(log[1], "USER")
    /\ \A i \in 1..Len(log) :
         IsWrite(log[i], "PASS") =>
           /\ i = 3
           /\ log[1].ok
           /\ IsRead(log[2])
           /\ IsCode(log[2].r, 331)
    /\ (Len(log) >= 2 /\ IsCode(log[2].r, 331)) =>
         \/ pc = "login_pass_w"
         \/ (Len(log) >= 3 /\ IsWrite(log[3], "PASS"))
    /\ (pc = "idle" /\ Len(log) = 4 /\ IsCode(log[4].r, 230)) =>
         result = OkBool(TRUE)
    /\ (pc = "idle" /\ Len(log) >= 2 /\ IsCode(log[2].r, 530)) =>
         (result = OkBool(FALSE) /\ Len(log) = 2)
    /\ (pc = "idle" /\ Len(log) >= 2 /\ IsCode(log[2].r, 230)) =>
         (result = OkBool(TRUE) /\ Len(log) = 2)

\* login has returned true after USER, 331, PASS, 230
C1_Witness ==
  /\ Returned("login")
  /\ Len(log) = 4
  /\ IsCode(log[2].r, 331)
  /\ IsWrite(log[3], "PASS")
  /\ IsCode(log[4].r, 230)
  /\ result = OkBool(TRUE)

\* C2: a 430 or 530 reply, to USER or to PASS, makes login return false;
\* login returns an error exactly when a write or a read fails (I/O), a
\* reply line is malformed, the reply to USER has a code outside
\* {230, 331, 430, 530} or the reply to PASS a code outside {230, 430, 530}.
C2_LoginErrors ==
  Returned("login") =>
    LET n == Len(log)
        last == log[n]
    IN /\ n \in {1, 2, 3, 4}
       /\ (IsRead(last) /\ last.r.kind = "Resp" /\ last.r.code \in {430, 530}) =>
            result = OkBool(FALSE)
       /\ IsErr(result) <=>
            \/ last.t = "write" /\ ~last.ok
            \/ IsRead(last) /\ last.r.kind = "IoError"
            \/ IsRead(last) /\ last.r.kind = "InvalidResponse"
            \/ /\ n = 2
               /\ last.r.kind = "Resp"
               /\ last.r.code \notin {230, 331, 430, 530}
            \/ /\ n = 4
               /\ last.r.kind = "Resp"
               /\ last.r.code \notin {230, 430, 530}
       /\ ~IsErr(result) => result \in {OkBool(TRUE), OkBool(FALSE)}
       /\ result.kind = "IoError" =>
            (last.t = "write" \/ last.r.kind = "IoError")

\* login has returned false for a 530 reply to PASS
C2_Witness ==
  /\ Returned("login")
  /\ Len(log) = 4
  /\ IsCode(log[4].r, 530)
  /\ result = OkBool(FALSE)

\* what the caller gets for a reply that is not the awaited one
ErrorFor(r) ==
  IF r.kind = "Resp"
  THEN IF r.code = 550
       THEN OperationFailed(r.text)
       ELSE UnexpectedReturnCode(r.code, r.text)
  ELSE r

\* C7: connect gives a session only when the one reply it reads after the
\* socket connects has code 220; for any other greeting code, a malformed
\* greeting or an I/O failure it returns an error and no session, after at
\* most one read, no command and one connection attempt, and nothing
\* follows.
C7_ConnectGreeting ==
  /\ op = "connect" =>
       /\ Len(log) \in {1, 2}
       /\ log[1].t = "connect"
       /\ Len(log) = 2 => (log[1].ok /\ IsRead(log[2]))
       /\ pc \in {"connect_r", "idle", "failed"}
       /\ pc = "idle" =>
            (Len(log) = 2 /\ IsCode(log[2].r, 220) /\ result = OkUnit)
       /\ pc = "failed" =>
            /\ IsErr(result)
            /\ IF Len(log) = 1
               THEN ~log[1].ok /\ result = IoError
               ELSE ~IsCode(log[2].r, 220) /\ result = ErrorFor(log[2].r)
            /\ ~ENABLED Next
  /\ op # "connect" => pc \notin {"connect_r", "failed"}

\* connect has failed on a greeting with another code
C7_Witness ==
  /\ op = "connect"
  /\ pc = "failed"
  /\ Len(log) = 2
  /\ result.kind = "UnexpectedReturnCode"
  /\ result.code = 230

SuccessCode(o) == IF o \in {"mkdir", "pwd"} THEN 257 ELSE 250

\* C8: each of cd, mkdir, rmdir, delete and pwd writes one command and,
\* when the write succeeded, reads one reply; it succeeds only for its
\* success code (250 for cd, rmdir and delete, 257 for mkdir and pwd); a
\* 550 reply yields OperationFailed with the server's text, another code
\* UnexpectedReturnCode with that code and text, and a malformed line or
\* an I/O failure is returned as it is.
C8_SimpleCommands ==
  (op \in SimpleOps /\ pc \in {"idle", "aborted"}) =>
    /\ Len(log) \in {1, 2}
    /\ IsWrite(log[1], Verb(op))
    /\ Cardinality({i \in 1..Len(log) : log[i].t = "write"}) = 1
    /\ IF log[1].ok
       THEN /\ Len(log) = 2
            /\ IsRead(log[2])
            /\ LET r == log[2].r IN
               /\ IsOk(result) => IsCode(r, SuccessCode(op))
               /\ (IsCode(r, SuccessCode(op)) /\ op # "pwd") => result = OkUnit
               /\ ~IsCode(r, SuccessCode(op)) => result = ErrorFor(r)
       ELSE Len(log) = 1 /\ result = IoError

\* mkdir has returned OperationFailed with the text of a 550 reply
C8_Witness ==
  /\ Returned("mkdir")
  /\ Len(log) = 2
  /\ IsCode(log[2].r, 550)
  /\ result = OperationFailed(<<"n", "o", " ", "f", "i", "l", "e">>)

\* the place of the first end-of-stream event of the log, 0 if none
EofAt ==
  IF \E i \in 1..Len(log) : log[i].t = "eof"
  THEN CHOOSE i \in 1..Len(log) : log[i].t = "eof"
  ELSE 0

\* the control-channel reads made after the end of the stream
ReadsAfterEof == {i \in (EofAt + 1)..Len(log) : IsRead(log[i])}

\* C3: get, put and list, once the data channel has reached its end, read
\* one more reply from the control channel and succeed only if its code
\* is 226; any other code (550 gives OperationFailed) or an I/O failure
\* makes the operation return an error, whatever was written before.
C3_ConfirmationAfterEof ==
  (op \in TransferOps /\ pc = "idle" /\ EofAt > 0) =>
    /\ Cardinality(ReadsAfterEof) = 1
    /\ IsRead(log[Len(log)])
    /\ LET r == log[Len(log)].r IN
       /\ IsOk(result) <=> IsCode(r, 226)
       /\ ~IsCode(r, 226) => result = ErrorFor(r)

\* C3, for get and put, and for list when the listing is valid UTF-8
C3_ConfirmationUnlessUndecodable ==
  (op \in TransferOps /\ pc = "idle" /\ EofAt > 0
     /\ ~\E i \in 1..Len(log) : log[i].t = "decode" /\ ~log[i].ok) =>
    /\ Cardinality(ReadsAfterEof) = 1
    /\ IsRead(log[Len(log)])
    /\ LET r == log[Len(log)].r IN
       /\ IsOk(result) <=> IsCode(r, 226)
       /\ ~IsCode(r, 226) => result = ErrorFor(r)

\* a download whose bytes were written and whose confirmation was 550
C3_DownloadRefused ==
  /\ Returned("get")
  /\ dest = "written"
  /\ EofAt > 0
  /\ IsCode(log[Len(log)].r, 550)
  /\ result.kind = "OperationFailed"

Quote == "\""

\* the text starts with a quoted pathname: "<path>" and whatever follows
IsQuoted(text) ==
  /\ Len(text) >= 2
  /\ text[1] = Quote
  /\ \E i \in 2..Len(text) : text[i] = Quote

\* the pathname between the first two double quotes
BetweenQuotes(text) ==
  LET close == CHOOSE i \in 2..Len(text) :
                 text[i] = Quote /\ \A j \in 2..(i - 1) : text[j] # Quote
  IN SubSeq(text, 2, close - 1)

\* C4: pwd returns the pathname between the double quotes of a 257 reply,
\* without the quotes and without anything after the closing quote: the
\* reply 257 "/home/user" is the current directory. yields /home/user.
C4_PwdPathBetweenQuotes ==
  (op = "pwd" /\ pc \in {"idle", "aborted"} /\ Len(log) = 2
     /\ IsCode(log[2].r, 257) /\ IsQuoted(log[2].r.text)) =>
    /\ result = OkText(BetweenQuotes(log[2].r.text))
    /\ log[2].r.text = PwdExampleText => result = OkText(PwdExamplePath)

\* what pwd does return: the text without its first and last character
C4_PwdStripsEnds ==
  (op = "pwd" /\ pc = "idle" /\ Len(log) = 2 /\ IsCode(log[2].r, 257)) =>
    LET text == log[2].r.text IN
    /\ Len(text) >= 2
    /\ result = OkText(SubSeq(text, 2, Len(text) - 1))

\* C9: at most one command is outstanding on the control channel: a
\* command is written only when every command written before it has had
\* its reply read (QUIT, whose reply is never read, ends the session).
C9_OneOutstanding == pending <= 1

\* the text has both parentheses, in order, around at least six fields
\* that are all numbers in 0..255
PasvWellFormed(text) ==
  /\ \E i \in 1..Len(text) : text[i] = "("
  /\ \E i \in 1..Len(text) : text[i] = ")"
  /\ LET lp == CHOOSE i \in 1..Len(text) :
                 text[i] = "(" /\ \A j \in (i + 1)..Len(text) : text[j] # "("
         rp == CHOOSE i \in 1..Len(text) :
                 text[i] = ")" /\ \A j \in (i + 1)..Len(text) : text[j] # ")"
     IN /\ lp < rp
        /\ LET fields == split(SubSeq(text, lp + 1, rp - 1), ",") IN
           /\ Len(fields) >= 6
           /\ \A i \in 1..Len(fields) :
                /\ fields[i] # <<>>
                /\ AllDigits(fields[i])
                /\ Len(StripZeros(fields[i])) <= 3
                /\ DigitsValue(StripZeros(fields[i])) <= 255

\* the reply to PASV of this operation was a 227 with a malformed text
MalformedPasvReply ==
  /\ op \in TransferOps
  /\ \E i \in 2..Len(log) :
       /\ IsWrite(log[i - 1], "PASV")
       /\ IsRead(log[i])
       /\ IsCode(log[i].r, 227)
       /\ ~PasvWellFormed(log[i].r.text)

\* C10: a 227 reply whose text lacks a parenthesis, has a field that is no
\* number in 0..255 or has fewer than six fields makes get, put or list
\* return an error; the client does not abort, sends no transfer command
\* and connects to no address.
C10_MalformedPasvIsError ==
  MalformedPasvReply =>
    /\ pc # "aborted"
    /\ pc = "idle" => IsErr(result)
    /\ \A i \in 1..Len(log) :
         /\ ~IsWrite(log[i], Verb(op))
         /\ log[i].t # "connect"

\* what the client does on a malformed 227 reply: it panics, having sent
\* no transfer command and made no connection
C10_MalformedPasvAborts ==
  MalformedPasvReply =>
    /\ pc = "aborted"
    /\ result = Panic
    /\ \A i \in 1..Len(log) :
         /\ ~IsWrite(log[i], Verb(op))
         /\ log[i].t # "connect"

\* C11: the mode is Passive when the session is created; a step changes it
\* only if it is a call of set_mode, after which it is the mode that call
\* was given; login, cd, mkdir, rmdir, delete, pwd, get, put and list,
\* whether they succeed or fail, leave it as it is.
C11_ModeFrame ==
  /\ [](op \in {"none", "connect"} => mode = Passive)
  /\ [][/\ mode' # mode => (pc = "idle" /\ pc' = "idle" /\ op' = "set_mode")
        /\ op' = "set_mode" =>
             /\ Len(log') = 1
             /\ log'[1].t = "set_mode"
             /\ mode'.kind = log'[1].c
             /\ port_to_string(mode'.addr) = log'[1].arg
        /\ (op' # "set_mode" /\ op' # "none") => mode' = mode]_vars

\* get has failed in the active mode that set_mode was given before it
C11_Witness ==
  /\ Returned("get")
  /\ IsErr(result)
  /\ mode = Active(Addr(<<10, 0, 0, 9>>, 255))

\* C12: quit writes the one command QUIT and reads no reply; whether the
\* write succeeds or fails it reports no failure; the session is closed:
\* no step follows, so nothing is written or read after it.
C12_QuitEndsSession ==
  /\ op = "quit" => pc \in {"quit_w", "closed"}
  /\ pc = "closed" =>
       /\ op = "quit"
       /\ Len(log) = 1
       /\ IsWrite(log[1], "QUIT")
       /\ result = OkUnit
       /\ ~ctrlUp
       /\ ~ENABLED Next

\* quit has ended the session although its write failed
C12_Witness ==
  /\ pc = "closed"
  /\ op = "quit"
  /\ ~log[1].ok
  /\ result = OkUnit

\* C13: when an operation returns, with success or with an error, none of
\* the replies the server sent for it is unread, and every reply an
\* operation reads answers a command that operation wrote; also when get
\* cannot create its file, put cannot open its file or list receives
\* bytes that are not UTF-8.
C13_RepliesConsumed ==
  /\ pc = "idle" => \A i \in 1..Len(ctrlQ) : ctrlQ[i] = "STALE"
  /\ \A i \in 1..Len(log) : (IsRead(log[i]) /\ log[i].ok) => log[i].c # "STALE"

\* get has returned the failure to create its file after the server had
\* accepted RETR, and the server's confirmation is unread
C13_UnreadAfterCreateFailure ==
  /\ Returned("get")
  /\ result = IoError
  /\ log[Len(log)] = EvStep("create", FALSE)
  /\ ctrlQ = <<"DONE">>

\* C14: when get, put or list reads the confirmation on the control
\* channel, the client has closed the data channel.
C14_DataClosedBeforeConfirmation ==
  (op \in TransferOps /\ pc = "end_r") => data = "none"

\* put waits for the confirmation with the data connection open, while a
\* server that confirms at the end of the stream has sent nothing
C14_UploadBlocked ==
  /\ op = "put"
  /\ pc = "end_r"
  /\ data = "open"
  /\ owed
  /\ ctrlUp
  /\ ctrlQ = <<>>

\* the operation is a transfer in active mode
ActiveTransfer == op \in TransferOps /\ mode.kind = "Active"

\* the operation is a transfer in passive mode
PassiveTransfer == op \in TransferOps /\ mode.kind = "Passive"

\* C15: in active mode the listener is bound first, then PORT is written
\* and its reply must be 200, then the transfer command is written and its
\* reply must be 150, then one connection is accepted; a PORT reply other
\* than 200 ends the operation with no transfer command written, a
\* transfer reply other than 150 ends it with no connection accepted.
C15_ActiveOrder ==
  ActiveTransfer =>
    /\ \A i \in 1..Len(log) :
         /\ log[i].t = "bind" => i = 3
         /\ IsWrite(log[i], "PORT") =>
              /\ i = 4
              /\ log[3] = EvStep("bind", TRUE)
              /\ log[i].arg = port_to_string(mode.addr)
         /\ IsWrite(log[i], Verb(op)) =>
              /\ i = 6
              /\ IsWrite(log[4], "PORT") /\ log[4].ok
              /\ IsRead(log[5]) /\ IsCode(log[5].r, 200)
         /\ log[i].t = "accept" =>
              /\ i = 8
              /\ IsWrite(log[6], Verb(op)) /\ log[6].ok
              /\ IsRead(log[7]) /\ IsCode(log[7].r, 150)
         /\ ~IsWrite(log[i], "PASV")
         /\ log[i].t # "connect"
    /\ data # "none" => (Len(log) >= 8 /\ log[8] = EvStep("accept", TRUE))
    /\ (Len(log) >= 5 /\ ~IsCode(log[5].r, 200)) =>
         (pc = "idle" /\ Len(log) = 5 /\ result = ErrorFor(log[5].r))
    /\ (Len(log) >= 7 /\ ~IsCode(log[7].r, 150)) =>
         (pc = "idle" /\ Len(log) = 7 /\ result = ErrorFor(log[7].r))

\* an active-mode transfer holds the connection it accepted after 150
C15_Witness ==
  /\ ActiveTransfer
  /\ Len(log) >= 8
  /\ IsCode(log[5].r, 200)
  /\ IsCode(log[7].r, 150)
  /\ log[8] = EvStep("accept", TRUE)
  /\ data = "open"

\* C16: in passive mode PASV is written and its reply must be 227, then
\* the client connects to the address of the reply, and only then is the
\* transfer command written; when the connection fails the transfer
\* command has not been written.
C16_ConnectBeforeCommand ==
  PassiveTransfer =>
    \A i \in 1..Len(log) :
      /\ IsWrite(log[i], Verb(op)) =>
           \E j \in 1..(i - 1) : log[j] = EvStep("connect", TRUE)
      /\ log[i] = EvStep("connect", FALSE) =>
           \A j \in 1..Len(log) : ~IsWrite(log[j], Verb(op))

\* what the client does in passive mode: PASV, 227, the transfer command,
\* then the connection, then the reply to the transfer command
C16_CommandBeforeConnect ==
  PassiveTransfer =>
    \A i \in 1..Len(log) :
      /\ IsWrite(log[i], "PASV") => i = 3
      /\ IsWrite(log[i], Verb(op)) =>
           (i = 5 /\ IsRead(log[4]) /\ IsCode(log[4].r, 227))
      /\ log[i].t = "connect" =>
           (i = 6 /\ IsWrite(log[5], Verb(op)) /\ log[5].ok)
      /\ (i = 7 /\ data # "none") => IsCode(log[7].r, 150)

\* C17: get, put and list write TYPE first, binary for get and put, text
\* for list, and go on only after a 200 reply; after any other reply the
\* operation has returned the error of that reply and nothing else has
\* happened: no listener, no PORT, no PASV, no transfer command, no data
\* connection.
C17_TypeFirst ==
  op \in TransferOps =>
    /\ Len(log) >= 1 =>
         /\ IsWrite(log[1], "TYPE")
         /\ log[1].arg = <<IF op = "list" THEN "Text" ELSE "Binary">>
    /\ \A i \in 2..Len(log) : ~IsWrite(log[i], "TYPE")
    /\ Len(log) >= 3 => (log[1].ok /\ IsRead(log[2]) /\ IsCode(log[2].r, 200))
    /\ (Len(log) >= 2 /\ ~IsCode(log[2].r, 200)) =>
         /\ pc = "idle"
         /\ Len(log) = 2
         /\ IsErr(result)
         /\ result = ErrorFor(log[2].r)
         /\ listener = "none"
         /\ data = "none"
    /\ (listener # "none" \/ data # "none") => Len(log) >= 3

\* list has returned the error of a 500 reply to TYPE
C17_Witness ==
  /\ Returned("list")
  /\ Len(log) = 2
  /\ log[1].arg = <<"Text">>
  /\ IsCode(log[2].r, 500)
  /\ result.kind = "UnexpectedReturnCode"

\* the bind events of the log
Binds == {i \in 1..Len(log) : log[i].t = "bind"}

\* C18: in active mode the listener is bound on the loopback interface,
\* and an operation gives up on a failed bind only after it has tried
\* more than one port.
C18_BindProbes ==
  (ActiveTransfer /\ Binds # {}) =>
    /\ mode.addr.ip = <<127, 0, 0, 1>>
    /\ (pc = "idle" /\ \E i \in Binds : ~log[i].ok) => Cardinality(Binds) > 1

\* what the client does: one bind, of the address set_mode was given; its
\* failure is the operation's result
C18_SingleBind ==
  ActiveTransfer =>
    /\ Cardinality(Binds) <= 1
    /\ (pc = "idle" /\ \E i \in Binds : ~log[i].ok) =>
         (Len(log) = 3 /\ result = IoError)

\* the steps of init_data_transfer_active after the bind
ActiveSteps == {"act_port_w", "act_port_r", "act_cmd_w", "act_cmd_r", "act_accept"}

\* C19: the listener is open only within init_data_transfer_active: once
\* that has returned, with the accepted connection or after a failure,
\* the listener is closed, and none is open between operations.
C19_ListenerScoped ==
  /\ listener = "bound" => (ActiveTransfer /\ pc \in ActiveSteps)
  /\ pc \in {"idle", "closed", "aborted", "failed"} => listener = "none"

\* an active-mode transfer has returned the failure of accept, and its
\* listener is closed
C19_Witness ==
  /\ ActiveTransfer
  /\ pc = "idle"
  /\ Len(log) = 8
  /\ log[8] = EvStep("accept", FALSE)
  /\ result = IoError
  /\ listener = "none"

\* C20: when put cannot open its local file it returns the I/O error with
\* no STOR written and no data connection made.
C20_PutOpenFailureNoEffect ==
  (op = "put" /\ pc = "idle" /\ \E i \in 1..Len(log) : log[i] = EvStep("open", FALSE)) =>
    /\ result = IoError
    /\ \A i \in 1..Len(log) :
         /\ ~IsWrite(log[i], "STOR")
         /\ log[i].t \notin {"connect", "accept"}

\* what put does: the file is opened after STOR was written, answered by
\* 150, and the data connection made
C20_OpenAfterEstablishment ==
  op = "put" =>
    \A i \in 1..Len(log) :
      log[i].t = "open" =>
        /\ \E j \in 1..(i - 1) : IsWrite(log[j], "STOR") /\ log[j].ok
        /\ \E j \in 1..(i - 1) : log[j].t \in {"connect", "accept"} /\ log[j].ok
        /\ IsCode(log[i - 1].r, 150) \/ log[i - 1].t = "accept"

\* C21: pwd returns a value, a path or an error, for every 257 reply,
\* whatever its text, the empty text and a text of one character
\* included; it never aborts the client.
C21_PwdNeverAborts ==
  op = "pwd" =>
    /\ pc # "aborted"
    /\ (pc = "idle" /\ Len(log) = 2 /\ IsCode(log[2].r, 257)) =>
         (IsOk(result) \/ IsErr(result))

\* what pwd does: it panics exactly for a 257 reply whose text has fewer
\* than two characters
C21_PwdAbortsOnShortText ==
  op = "pwd" =>
    (pc = "aborted" <=>
       /\ Len(log) = 2
       /\ IsCode(log[2].r, 257)
       /\ Len(log[2].r.text) < 2
       /\ result = Panic)

====
